---- MODULE Spec2Model ----
(***************************************************************************)
(* The recommendation pipeline of app/api/recommendations/route.ts: the    *)
(* POST handler, the role_recommendations table it reads and appends to,   *)
(* and the clean-up it applies to the reply of the model before parsing.   *)
(*                                                                         *)
(* A reply is a sequence of tokens.  An object's members are written with  *)
(* one token per complete member list ("A" stands for the four members     *)
(* role_title, description, why_it_fits_professionally and                 *)
(* why_it_fits_personally of record A), so that "{" "A" "}" is an object.  *)
(***************************************************************************)
EXTENDS Integers, Sequences, FiniteSets, TLC

\* ------------------------------------------------------------ JSON values

Keys == {"role_title", "description", "why_it_fits_professionally",
         "why_it_fits_personally"}

Null == [t |-> "null"]
Num == [t |-> "num"]
Str(s) == [t |-> "str", s |-> s]
Arr(a) == [t |-> "arr", a |-> a]
Obj(m) == [t |-> "obj", m |-> m]

\* The record named n: an object with the four keys, each a string of its own.
RecObj(n) == Obj([k \in Keys |-> Str(<<n, k>>)])

\* route.ts 23-42: the three hardcoded records.
defaultRecommendations ==
    << RecObj("Software Developer"), RecObj("Data Analyst"),
       RecObj("Product Manager") >>

\* ------------------------------------------------------ strings as tokens

WS == {" ", "\n"}
\* The three backquotes that open or close a fenced block, as one token.
Fence == "fence"

\* Member lists: A, B, C carry the four keys; K carries another key only;
\* P carries role_title and description only.
FullAtoms == {"A", "B", "C"}
BodyAtoms == FullAtoms \cup {"K", "P"}
KeyToks == {"roles:"}
ScalarToks == {"1", "null", "str"}

AtomMembers(x) ==
    CASE x \in FullAtoms -> [k \in Keys |-> Str(<<x, k>>)]
      [] x = "K" -> [k \in {"title"} |-> Str(<<x, k>>)]
      [] x = "P" -> [k \in {"role_title", "description"} |-> Str(<<x, k>>)]

ScalarValue(x) ==
    CASE x = "1" -> Num
      [] x = "null" -> Null
      [] x = "str" -> Str(<<"str", "">>)

\* f with the members of g added, a later member replacing an earlier one of
\* the same key (JSON.parse keeps the last).
Merge(f, g) ==
    [k \in (DOMAIN f) \cup (DOMAIN g) |-> IF k \in DOMAIN g THEN g[k] ELSE f[k]]

SubSeqFrom(s, i) == SubSeq(s, i, Len(s))

\* String.prototype.trim
RECURSIVE TrimLeft(_)
TrimLeft(s) ==
    IF s # <<>> /\ Head(s) \in WS THEN TrimLeft(Tail(s)) ELSE s

RECURSIVE TrimRight(_)
TrimRight(s) ==
    IF s # <<>> /\ s[Len(s)] \in WS THEN TrimRight(SubSeq(s, 1, Len(s) - 1)) ELSE s

Trim(s) == TrimRight(TrimLeft(s))

\* String.prototype.startsWith
StartsWith(s, pre) ==
    Len(s) >= Len(pre) /\ SubSeq(s, 1, Len(pre)) = pre

OccursAt(s, pat, i) ==
    i + Len(pat) - 1 <= Len(s) /\ SubSeq(s, i, i + Len(pat) - 1) = pat

\* s.replace(/pat/, ""): the first occurrence of pat removed.
RemoveFirst(s, pat) ==
    LET hits == {i \in 1..Len(s) : OccursAt(s, pat, i)}
    IN  IF hits = {} THEN s
        ELSE LET i == CHOOSE h \in hits : \A g \in hits : h <= g
             IN  SubSeq(s, 1, i - 1) \o SubSeqFrom(s, i + Len(pat))

\* s.replace(/pat$/, ""): pat removed when the string ends with it.
RemoveAtEnd(s, pat) ==
    IF Len(s) >= Len(pat) /\ OccursAt(s, pat, Len(s) - Len(pat) + 1)
    THEN SubSeq(s, 1, Len(s) - Len(pat))
    ELSE s

\* route.ts 156-160: the two fence branches.
StripFences(s) ==
    IF StartsWith(s, <<Fence, "json">>)
    THEN RemoveAtEnd(RemoveFirst(s, <<Fence, "json", "\n">>), <<"\n", Fence>>)
    ELSE IF StartsWith(s, <<Fence>>)
    THEN RemoveAtEnd(RemoveFirst(s, <<Fence, "\n">>), <<"\n", Fence>>)
    ELSE s

AllWs(s, i, j) == \A k \in i..j : s[k] \in WS

\* The spans <<i, e>> that /\[\s*\{[\s\S]*\}\s*\]/ can match in s.
ArraySpans(s) ==
    {sp \in (1..Len(s)) \X (1..Len(s)) :
        /\ s[sp[1]] = "[" /\ s[sp[2]] = "]"
        /\ \E j, k \in (sp[1] + 1)..(sp[2] - 1) :
              /\ j < k /\ s[j] = "{" /\ s[k] = "}"
              /\ AllWs(s, sp[1] + 1, j - 1) /\ AllWs(s, k + 1, sp[2] - 1)}

\* The text parsed as it is left by the fence step.
ExtractArrayNone(s) == s

\* The same with a lazy [\s\S]*?, which takes the shortest match.
ExtractArrayLazy(s) ==
    LET sps == ArraySpans(s)
    IN  IF sps = {} THEN s
        ELSE LET i == CHOOSE a \in {sp[1] : sp \in sps} :
                          \A sp \in sps : a <= sp[1]
                 e == CHOOSE b \in {sp[2] : sp \in {q \in sps : q[1] = i}} :
                          \A sp \in {q \in sps : q[1] = i} : b <= sp[2]
             IN  SubSeq(s, i, e)

\* route.ts 164-167: String.prototype.match takes the leftmost start, and the
\* greedy [\s\S]* the longest match from it.
ExtractArray(s) ==
    LET sps == ArraySpans(s)
    IN  IF sps = {} THEN s
        ELSE LET i == CHOOSE a \in {sp[1] : sp \in sps} :
                          \A sp \in sps : a <= sp[1]
                 e == CHOOSE b \in {sp[2] : sp \in {q \in sps : q[1] = i}} :
                          \A sp \in {q \in sps : q[1] = i} : b >= sp[2]
             IN  SubSeq(s, i, e)

\* ------------------------------------------------------------- JSON.parse

Fail == [ok |-> FALSE, v |-> Null, n |-> 0]
Ok(v, n) == [ok |-> TRUE, v |-> v, n |-> n]

RECURSIVE SkipWs(_, _)
SkipWs(s, i) ==
    IF i <= Len(s) /\ s[i] \in WS THEN SkipWs(s, i + 1) ELSE i

RECURSIVE ParseValue(_, _)
RECURSIVE ParseElems(_, _, _)
RECURSIVE ParseMembers(_, _, _)

ParseValue(s, i) ==
    LET j == SkipWs(s, i)
    IN  IF j > Len(s) THEN Fail
        ELSE IF s[j] \in ScalarToks THEN Ok(ScalarValue(s[j]), j + 1)
        ELSE IF s[j] = "["
        THEN LET k == SkipWs(s, j + 1)
             IN  IF k <= Len(s) /\ s[k] = "]" THEN Ok(Arr(<<>>), k + 1)
                 ELSE ParseElems(s, k, <<>>)
        ELSE IF s[j] = "{"
        THEN LET k == SkipWs(s, j + 1)
             IN  IF k <= Len(s) /\ s[k] = "}" THEN Ok(Obj(<<>>), k + 1)
                 ELSE ParseMembers(s, k, <<>>)
        ELSE Fail

ParseElems(s, i, acc) ==
    LET r == ParseValue(s, i)
    IN  IF ~r.ok THEN Fail
        ELSE LET k == SkipWs(s, r.n)
             IN  IF k > Len(s) THEN Fail
                 ELSE IF s[k] = "," THEN ParseElems(s, k + 1, Append(acc, r.v))
                 ELSE IF s[k] = "]" THEN Ok(Arr(Append(acc, r.v)), k + 1)
                 ELSE Fail

ParseMembers(s, i, acc) ==
    LET j == SkipWs(s, i)
        m == IF j > Len(s) THEN Fail
             ELSE IF s[j] \in BodyAtoms THEN Ok(AtomMembers(s[j]), j + 1)
             ELSE IF s[j] \in KeyToks
             THEN LET r == ParseValue(s, j + 1)
                  IN  IF r.ok THEN Ok([x \in {s[j]} |-> r.v], r.n) ELSE Fail
             ELSE Fail
    IN  IF ~m.ok THEN Fail
        ELSE LET k == SkipWs(s, m.n)
             IN  IF k > Len(s) THEN Fail
                 ELSE IF s[k] = "," THEN ParseMembers(s, k + 1, Merge(acc, m.v))
                 ELSE IF s[k] = "}" THEN Ok(Obj(Merge(acc, m.v)), k + 1)
                 ELSE Fail

\* JSON.parse: a value, whitespace around it, nothing else; throws otherwise.
JSONParse(s) ==
    LET r == ParseValue(s, 1)
    IN  IF r.ok /\ SkipWs(s, r.n) > Len(s) THEN r ELSE Fail

\* The same without the wrapping of lines 174-175: an object throws too.
NormalizeNoWrap(content) ==
    LET jsonString == ExtractArray(StripFences(Trim(content)))
        r == JSONParse(jsonString)
    IN  IF ~r.ok THEN [ok |-> FALSE, list |-> <<>>]
        ELSE IF r.v.t = "arr" THEN [ok |-> TRUE, list |-> r.v.a]
        ELSE [ok |-> FALSE, list |-> <<>>]

\* route.ts 153-179: the body of the parsing try block.  ok = FALSE is the
\* block throwing (the SyntaxError of JSON.parse, or the Error of line 177).
Normalize(content) ==
    LET jsonString == ExtractArray(StripFences(Trim(content)))
        r == JSONParse(jsonString)
    IN  IF ~r.ok THEN [ok |-> FALSE, list |-> <<>>]
        ELSE IF r.v.t = "arr" THEN [ok |-> TRUE, list |-> r.v.a]
        ELSE IF r.v.t \in {"obj", "null"} THEN [ok |-> TRUE, list |-> <<r.v>>]
        ELSE [ok |-> FALSE, list |-> <<>>]

\* ------------------------------------------------------------ the handler

\* The invocations of POST: two that may overlap, and a later one that the
\* specifications of the later request alone let start.
Procs == {"p1", "p2"}
Later == "p3"
Slots == Procs \cup {Later}
Users == {"u1", "u2"}
NoUser == ""

\* The request bodies: one request.json() rejects, and JSON objects with a
\* userId or without one (NoUser: absent, empty, null).
Bodies ==
    {[json |-> FALSE, userId |-> NoUser]} \cup
    {[json |-> TRUE, userId |-> u] : u \in Users \cup {NoUser}}

\* The replies the model is taken to give (message.content).
Array3 == <<"[", "{", "A", "}", ",", "{", "B", "}", ",", "{", "C", "}", "]">>
Replies ==
    { Array3,
      <<"w", "\n", Fence, "json", "\n", "[", "{", "A", "}", "]", "\n", Fence>>,
      <<"{", "A", "}">>,
      <<"[", "{", "P", "}", "]">>,
      <<"[", "]">>,
      <<"[", "{", "A", "}", ",", "null", "]">>,
      <<"null">>,
      <<"1">>,
      <<"w", " ", "w">> }

Undefined == [t |-> "undefined"]

\* rec.k in JavaScript, for rec other than null and undefined.
Prop(rec, k) ==
    IF rec.t = "obj" /\ k \in DOMAIN rec.m THEN rec.m[k] ELSE Undefined

\* A property that is undefined is left out of the request body, and the
\* column is NULL.
Column(v) == IF v = Undefined THEN Null ELSE v

VARIABLES
    store,      \* the table role_recommendations, in order of insertion
    pc,         \* where each invocation of POST stands
    uid,        \* userId
    prof,       \* what the profiles query gave (profileError, discoveryData)
    existing,   \* existingRecommendations
    call,       \* how the model call ended
    content,    \* responseContent
    recs,       \* roleRecommendations
    idx,        \* the record of roleRecommendations whose insert is awaited
    ins,        \* how the inserts of the invocation ended, in order
    parsed,     \* "ok": the parsing try block ended; "failed": its catch ran
    calls,      \* the requests the invocation has sent to each collaborator
    timer,      \* the timeout of line 128: "off", "armed", "fired"
    caught,     \* what the catch of lines 212-215 caught and logged
    prompt,     \* the user message of lines 118-122: the three joined lists
    resp        \* the responses the invocation has returned

vars == <<store, pc, uid, prof, existing, call, content, recs, idx, ins, parsed,
          calls, timer, caught, prompt, resp>>

NoCalls == [profile |-> 0, cache |-> 0, model |-> 0, insert |-> 0]

NoPrompt == [skills |-> <<>>, interests |-> <<>>, values |-> <<>>, sent |-> FALSE]

Init ==
    /\ store = <<>>
    /\ pc = [p \in Slots |-> "Start"]
    /\ uid = [p \in Slots |-> NoUser]
    /\ prof = [p \in Slots |-> "none"]
    /\ existing = [p \in Slots |-> <<>>]
    /\ call = [p \in Slots |-> "none"]
    /\ content = [p \in Slots |-> <<>>]
    /\ recs = [p \in Slots |-> <<>>]
    /\ idx = [p \in Slots |-> 0]
    /\ ins = [p \in Slots |-> <<>>]
    /\ parsed = [p \in Slots |-> "none"]
    /\ calls = [p \in Slots |-> NoCalls]
    /\ timer = [p \in Slots |-> "off"]
    /\ caught = [p \in Slots |-> "none"]
    /\ prompt = [p \in Slots |-> NoPrompt]
    /\ resp = [p \in Slots |-> <<>>]

\* NextResponse.json(body, {status}); every return of POST is one of these.
\* key is the one key of the body: recommendations, or error.
Reply(status, list) == [status |-> status, key |-> "recommendations", list |-> list]
ErrorReply(status) == [status |-> status, key |-> "error", list |-> <<>>]

Respond(p, r) ==
    /\ resp' = [resp EXCEPT ![p] = Append(@, r)]
    /\ pc' = [pc EXCEPT ![p] = "Done"]

Sent(p, what) == calls' = [calls EXCEPT ![p][what] = @ + 1]

\* route.ts 45-61: the body is read, userId checked, the profile query sent.
StartOf(p, B) ==
    /\ pc[p] = "Start"
    /\ \E body \in B :
        /\ IF ~body.json
           THEN \* request.json() throws: the catch of lines 212-215
                /\ Respond(p, Reply(200, defaultRecommendations))
                /\ UNCHANGED <<uid, calls>>
           ELSE IF body.userId = NoUser
           THEN /\ Respond(p, ErrorReply(400))
                /\ UNCHANGED <<uid, calls>>
           ELSE /\ uid' = [uid EXCEPT ![p] = body.userId]
                /\ pc' = [pc EXCEPT ![p] = "ProfileLookup"]
                /\ Sent(p, "profile")
                /\ UNCHANGED resp
        /\ caught' = [caught EXCEPT ![p] = IF body.json THEN @ ELSE "json"]
    /\ UNCHANGED <<store, prof, existing, call, content, recs, idx, ins, parsed, timer,
                   prompt>>

Start(p) == StartOf(p, Bodies)

\* What the profiles query can give: an error, a rejection, a row without
\* discovery_data, and discovery data with its three facets complete
\* ("full"), with facets that lack selected ("noSelected"), or with a facet
\* missing ("noFacet").
ProfileOutcomes == {"error", "throws", "noData", "full", "noSelected", "noFacet"}

\* The same with the test of line 71 left out.
NoDiscoveryUnchecked(o) == o \in {"error", "throws"}

\* route.ts 63-74: the outcomes that end the invocation with the default set
\* (a rejection ends it in the catch of lines 212-215).
NoDiscovery(o) == o \in {"error", "throws", "noData"}

\* route.ts 57-82: the profile arrives; the cache query is sent.
ProfileLookupOf(p, O) ==
    /\ pc[p] = "ProfileLookup"
    /\ \E o \in O :
        /\ prof' = [prof EXCEPT ![p] = o]
        /\ IF NoDiscovery(o)
           THEN /\ Respond(p, Reply(200, defaultRecommendations))
                /\ UNCHANGED calls
           ELSE /\ pc' = [pc EXCEPT ![p] = "CacheCheck"]
                /\ Sent(p, "cache")
                /\ UNCHANGED resp
        /\ caught' = [caught EXCEPT ![p] = IF o = "throws" THEN "profile" ELSE @]
    /\ UNCHANGED <<store, uid, existing, call, content, recs, idx, ins, parsed, timer,
                   prompt>>

ProfileLookup(p) == ProfileLookupOf(p, ProfileOutcomes)

\* .limit(3), line 82
CacheLimit == 3

RECURSIVE OldestFirst(_)
\* The same order with ascending: true.
OldestFirst(S) ==
    IF S = {} THEN <<>>
    ELSE LET m == CHOOSE e \in S : \A f \in S : e.created_at <= f.created_at
         IN  <<m>> \o OldestFirst(S \ {m})

RECURSIVE NewestFirst(_)
\* .order("created_at", { ascending: false }) of a set of rows
NewestFirst(S) ==
    IF S = {} THEN <<>>
    ELSE LET m == CHOOSE e \in S : \A f \in S : f.created_at <= e.created_at
         IN  <<m>> \o NewestFirst(S \ {m})

\* No limit.
LimitOff(s, n) == s

Limit(s, n) == SubSeq(s, 1, IF Len(s) < n THEN Len(s) ELSE n)

Reverse(s) == [i \in DOMAIN s |-> s[Len(s) + 1 - i]]

\* The same with ascending: true.
CachedRowsOldestFirst(u) ==
    Limit(Reverse(NewestFirst({store[i] : i \in {j \in DOMAIN store : store[j].user_id = u}})),
          CacheLimit)

\* route.ts 77-82: the rows the cache query gives for user u.
CachedRows(u) ==
    Limit(NewestFirst({store[i] : i \in {j \in DOMAIN store : store[j].user_id = u}}),
          CacheLimit)

\* route.ts 86-91: the four properties of a row.
FormatRec(item) == Obj([k \in Keys |-> item[k]])

FormatRecs(rows) == [i \in DOMAIN rows |-> FormatRec(rows[i])]

\* The same with the two why_it_fits properties exchanged.
NewRowSwapped(p, rec) ==
    [user_id |-> uid[p],
     role_title |-> Column(Prop(rec, "role_title")),
     description |-> Column(Prop(rec, "description")),
     why_it_fits_professionally |-> Column(Prop(rec, "why_it_fits_personally")),
     why_it_fits_personally |-> Column(Prop(rec, "why_it_fits_professionally")),
     created_at |-> Len(store) + 1,
     by |-> p]

\* route.ts 191-197: the row an accepted insert of rec adds for invocation p.
\* The table stamps created_at itself, later for a later insert; by records
\* the invocation that sent the insert and is no column of the table.
NewRow(p, rec) ==
    [user_id |-> uid[p],
     role_title |-> Column(Prop(rec, "role_title")),
     description |-> Column(Prop(rec, "description")),
     why_it_fits_professionally |-> Column(Prop(rec, "why_it_fits_professionally")),
     why_it_fits_personally |-> Column(Prop(rec, "why_it_fits_personally")),
     created_at |-> Len(store) + 1,
     by |-> p]

CacheOutcomes == {"ok", "error", "throws"}

\* The selected tags of the facets of each kind of discovery data: "full"
\* has the three lists, "noSelected" has the facets without selected,
\* "noFacet" has no skills facet.
Selected(kind, facet) ==
    IF kind = "full"
    THEN CASE facet = "skills" -> <<"coding">>
           [] facet = "interests" -> <<"data">>
           [] facet = "values" -> <<"impact">>
    ELSE <<>>

\* Whether discoveryData.skills, .values and .interests are all objects.
FacetsPresent(kind) == kind # "noFacet"

\* route.ts 97-122: selected || [] of each facet, joined into the message.
UserMessage(kind) ==
    [skills |-> Selected(kind, "skills"),
     interests |-> Selected(kind, "interests"),
     values |-> Selected(kind, "values"),
     sent |-> TRUE]

\* route.ts 77-137: the cache rows arrive; on a miss the prompt is built and
\* the model called.
CacheCheckOf(p, O) ==
    /\ pc[p] = "CacheCheck"
    /\ \E o \in O :
        LET rows == IF o = "ok" THEN CachedRows(uid[p]) ELSE <<>>
        IN  IF o = "throws"
            THEN /\ Respond(p, Reply(200, defaultRecommendations))
                 /\ caught' = [caught EXCEPT ![p] = "cache"]
                 /\ UNCHANGED <<existing, call, calls, timer, prompt>>
            ELSE IF Len(rows) > 0
            THEN /\ existing' = [existing EXCEPT ![p] = rows]
                 /\ Respond(p, Reply(200, FormatRecs(rows)))
                 /\ UNCHANGED <<call, calls, timer, caught, prompt>>
            ELSE IF ~FacetsPresent(prof[p])
            THEN \* lines 98-108 read .selected of undefined: lines 212-215
                 /\ Respond(p, Reply(200, defaultRecommendations))
                 /\ caught' = [caught EXCEPT ![p] = "facet"]
                 /\ UNCHANGED <<existing, call, calls, timer, prompt>>
            ELSE /\ pc' = [pc EXCEPT ![p] = "AwaitModel"]
                 /\ call' = [call EXCEPT ![p] = "pending"]
                 /\ timer' = [timer EXCEPT ![p] = "armed"]
                 /\ prompt' = [prompt EXCEPT ![p] = UserMessage(prof[p])]
                 /\ Sent(p, "model")
                 /\ UNCHANGED <<existing, caught, resp>>
    /\ UNCHANGED <<store, uid, prof, content, recs, idx, ins, parsed>>

CacheCheck(p) == CacheCheckOf(p, CacheOutcomes)

\* The same without the try of line 189 around the loop.
LoopUncaught(p, list, i) ==
    IF i > Len(list)
    THEN /\ Respond(p, Reply(200, list))
         /\ UNCHANGED <<idx, calls>>
    ELSE IF list[i] = Null
    THEN /\ pc' = [pc EXCEPT ![p] = "Uncaught"]
         /\ UNCHANGED <<idx, calls, resp>>
    ELSE /\ idx' = [idx EXCEPT ![p] = i]
         /\ pc' = [pc EXCEPT ![p] = "Persist"]
         /\ Sent(p, "insert")
         /\ UNCHANGED resp

\* route.ts 190-205: the for loop reaches record i of list.  Reading a
\* property of null throws into the catch of line 199.
Loop(p, list, i) ==
    IF i > Len(list) \/ list[i] = Null
    THEN /\ Respond(p, Reply(200, list))
         /\ UNCHANGED <<idx, calls>>
    ELSE /\ idx' = [idx EXCEPT ![p] = i]
         /\ pc' = [pc EXCEPT ![p] = "Persist"]
         /\ Sent(p, "insert")
         /\ UNCHANGED resp

\* What the model call can give besides a reply with content: a rejection, a
\* response without body, a body without choices.
ModelFailures == {"throws", "noBody", "noChoices"}

\* The same with the catch of line 180 taking a body without choices for a
\* reply that does not parse.
ModelFailedPersists(p, o) ==
    /\ call' = [call EXCEPT ![p] = o]
    /\ timer' = [timer EXCEPT ![p] = IF o = "throws" THEN @ ELSE "off"]
    /\ IF o = "noChoices"
       THEN /\ recs' = [recs EXCEPT ![p] = defaultRecommendations]
            /\ Loop(p, defaultRecommendations, 1)
       ELSE /\ Respond(p, Reply(200, defaultRecommendations))
            /\ UNCHANGED <<recs, idx, calls>>
    /\ UNCHANGED <<content, parsed>>

\* route.ts 141-144, 149, 180-182, 207-210: the call failed.  Without
\* choices line 149 throws, and line 182 throws again out of the catch of
\* line 180, into the catch of line 207.
ModelFailed(p, o) ==
    /\ call' = [call EXCEPT ![p] = o]
    /\ timer' = [timer EXCEPT ![p] = IF o = "throws" THEN @ ELSE "off"]
    /\ Respond(p, Reply(200, defaultRecommendations))
    /\ UNCHANGED <<content, recs, idx, parsed, calls>>

\* route.ts 130-198: the call settles before the timeout, with a failure or
\* with one of the replies R.
ModelReplyOf(p, R) ==
    /\ pc[p] = "AwaitModel"
    /\ timer[p] = "armed"
    /\ \/ \E o \in ModelFailures : ModelFailed(p, o)
       \/ \E c \in R :
            LET n == Normalize(c)
                \* lines 180-186: the catch puts the default set in its place
                list == IF n.ok THEN n.list ELSE defaultRecommendations
            IN  /\ call' = [call EXCEPT ![p] = "content"]
                /\ content' = [content EXCEPT ![p] = c]
                /\ parsed' = [parsed EXCEPT ![p] = IF n.ok THEN "ok" ELSE "failed"]
                /\ recs' = [recs EXCEPT ![p] = list]
                /\ timer' = [timer EXCEPT ![p] = "off"]
                /\ Loop(p, list, 1)
    /\ UNCHANGED <<store, uid, prof, existing, ins, caught, prompt>>

ModelReply(p) == ModelReplyOf(p, Replies)

\* The same with the abort taken for a reply that does not parse.
AbortedPersists(p) ==
    /\ call' = [call EXCEPT ![p] = "aborted"]
    /\ recs' = [recs EXCEPT ![p] = defaultRecommendations]
    /\ Loop(p, defaultRecommendations, 1)

\* route.ts 137, 207-210: the pending call rejects with the abort.
Aborted(p) ==
    /\ call' = [call EXCEPT ![p] = "aborted"]
    /\ Respond(p, Reply(200, defaultRecommendations))
    /\ UNCHANGED <<recs, idx, calls>>

\* route.ts 128: the timeout expires and aborts the controller; a call still
\* pending rejects.
TimerFires(p) ==
    /\ timer[p] = "armed"
    /\ timer' = [timer EXCEPT ![p] = "fired"]
    /\ IF pc[p] = "AwaitModel"
       THEN Aborted(p)
       ELSE UNCHANGED <<call, pc, resp, recs, idx, calls>>
    /\ UNCHANGED <<store, uid, prof, existing, content, ins, parsed, caught, prompt>>

InsertOutcomes == {"ok", "error", "throws"}

\* The same without the try of line 189: the catch of lines 212-215 answers.
InsertThrewOuter(p) ==
    /\ Respond(p, Reply(200, defaultRecommendations))
    /\ UNCHANGED <<idx, calls>>

\* route.ts 199-205: an insert that throws ends the loop.
InsertThrew(p) ==
    /\ Respond(p, Reply(200, recs[p]))
    /\ UNCHANGED <<idx, calls>>

\* route.ts 191-205: the awaited insert settles; the loop goes on.
InsertOf(p, O) ==
    /\ pc[p] = "Persist"
    /\ \E o \in O :
        /\ store' = IF o = "ok" THEN Append(store, NewRow(p, recs[p][idx[p]])) ELSE store
        /\ ins' = [ins EXCEPT ![p] = Append(@, o)]
        /\ IF o = "throws" THEN InsertThrew(p) ELSE Loop(p, recs[p], idx[p] + 1)
    /\ UNCHANGED <<uid, prof, existing, call, content, recs, parsed, timer, caught,
                   prompt>>

Insert(p) == InsertOf(p, InsertOutcomes)

Next ==
    \E p \in Procs :
        \/ Start(p)
        \/ ProfileLookup(p)
        \/ CacheCheck(p)
        \/ ModelReply(p)
        \/ TimerFires(p)
        \/ Insert(p)

Spec == Init /\ [][Next]_vars

\* --------------------------------- two requests of one user, then a third

\* Requests of user u1, whose profile has its discovery data, at a time when
\* the profile and cache queries succeed.  Inserts and the model may fail.
RaceBodies == {[json |-> TRUE, userId |-> "u1"]}
RaceReplies ==
    { Array3,
      <<"[", "{", "P", "}", ",", "{", "A", "}", ",", "{", "B", "}", "]">>,
      <<"{", "A", "}">> }

RaceStep(p) ==
    \/ StartOf(p, RaceBodies)
    \/ ProfileLookupOf(p, {"full"})
    \/ CacheCheckOf(p, {"ok"})
    \/ ModelReplyOf(p, RaceReplies)
    \/ TimerFires(p)
    \/ InsertOf(p, InsertOutcomes)

\* The writes of the two have settled: neither is at work.
Settled == \A p \in Procs : pc[p] \in {"Start", "Done"}

\* The two overlap freely; the third comes when they are at rest, and no
\* request starts after it.
RaceNext ==
    \/ \E p \in Procs : pc[Later] = "Start" /\ RaceStep(p)
    \/ Settled /\ RaceStep(Later)

RaceSpec == Init /\ [][RaceNext]_vars

\* ------------------------------------------- one invocation, many replies

\* Texts that are strict JSON, and two that are not (the last two).
StrictArrays ==
    { <<"[", "{", "A", "}", "]">>,
      Array3,
      <<"[", " ", "{", "A", "}", " ", ",", "\n", "{", "B", "}", " ", "]">>,
      <<"[", "{", "roles:", "[", "{", "B", "}", "]", "}", "]">> }

StrictObjects ==
    { <<"{", "A", "}">>,
      <<"{", "P", "}">>,
      <<"{", "}">>,
      <<"{", "roles:", "[", "1", "]", "}">>,
      <<"{", "roles:", "[", "{", "A", "}", "]", "}">>,
      <<"{", "A", ",", "roles:", "[", "{", "B", "}", ",", "{", "C", "}", "]", "}">> }

StrictOthers ==
    { <<"[", "[", "{", "A", "}", "]", "]">>,
      <<"[", "[", "{", "A", "}", "]", ",", "[", "{", "B", "}", "]", "]">>,
      <<"[", "]">>,
      <<"[", "1", "]">>,
      <<"null">>,
      <<"1">>,
      <<"str">>,
      <<"[", "{", "A", "}", ",", "null", "]">>,
      <<"[", "{", "A", "}", ",", "[", "{", "B", "}", "]", "]">> }

NotJSON ==
    { <<"[", "{", "A", "}", ",", "{", "B">>,
      <<"w", " ", "w">> }

\* What the model may put before the JSON: nothing, white space, prose (with
\* a bracketed reference), an opening fence with the tag json, with another
\* tag or with none, prose and then a fence.
Prefixes ==
    { <<>>,
      <<" ", "\n">>,
      <<"w", " ", "w", "\n">>,
      <<"w", "[", "1", "]", "\n">>,
      <<Fence, "json", "\n">>,
      <<Fence, "\n">>,
      <<Fence, "w", "\n">>,
      <<"w", "\n", Fence, "json", "\n">>,
      <<"w", "\n", Fence, "\n">> }

\* What the model may put after it: nothing, white space, a closing fence,
\* prose, a closing fence and then prose.
Suffixes ==
    { <<>>,
      <<"\n">>,
      <<"\n", Fence>>,
      <<Fence>>,
      <<"\n", "w", " ", "w">>,
      <<"\n", Fence, "\n", "w", "[", "1", "]">> }

Wrapped(B) == {pre \o b \o suf : pre \in Prefixes, b \in B, suf \in Suffixes}

NormReplies == Wrapped(StrictArrays \cup StrictObjects \cup StrictOthers \cup NotJSON)

\* One invocation running alone, the model answering with any of NormReplies.
NormNext ==
    \/ Start("p1")
    \/ ProfileLookup("p1")
    \/ CacheCheck("p1")
    \/ ModelReplyOf("p1", NormReplies)
    \/ TimerFires("p1")
    \/ Insert("p1")

NormSpec == Init /\ [][NormNext]_vars
\* The collaborators settle every request, and a timer that is armed fires.
Fairness == \A p \in Procs : WF_vars(Start(p) \/ ProfileLookup(p) \/ CacheCheck(p)
                                       \/ ModelReply(p) \/ TimerFires(p) \/ Insert(p))

LiveSpec == Spec /\ Fairness

\* ------------------------------------------------------------------ claims

HasUser(p) == uid[p] # NoUser
Done(p) == pc[p] = "Done"
RowsBy(p) == SelectSeq(store, LAMBDA e : e.by = p)

\* C1: an invocation with a userId answers at most once, what it answers is
\* status 200 with a recommendations list, and it does answer.
C1_AlwaysResponds ==
    /\ [](\A p \in Procs :
            /\ Len(resp[p]) <= 1
            /\ pc[p] \in {"Start", "ProfileLookup", "CacheCheck", "AwaitModel",
                          "Persist", "Done"}
            /\ Done(p) <=> Len(resp[p]) = 1
            /\ (HasUser(p) /\ Done(p)) =>
                  (resp[p][1].status = 200 /\ resp[p][1].key = "recommendations"))
    /\ \A p \in Procs : HasUser(p) ~> (Done(p) /\ Len(resp[p]) = 1)

C1_Witness ==
    \E p \in Procs : HasUser(p) /\ Done(p) /\ ins[p] # <<>> /\ ins[p][Len(ins[p])] = "throws"

\* C2: a request without userId is answered 400, and nothing is asked of the
\* store or the model.
C2_NoUserIdIs400 ==
    \A p \in Procs :
        (Done(p) /\ ~HasUser(p)) => (resp[p][1].status = 400 /\ calls[p] = NoCalls)

\* C3: a reply that fails to parse writes nothing, and every row of
\* role_recommendations comes from an invocation whose reply parsed.
C3_FallbackNeverPersisted ==
    /\ \A p \in Procs : parsed[p] = "failed" => (calls[p].insert = 0 /\ RowsBy(p) = <<>>)
    /\ \A i \in DOMAIN store : parsed[store[i].by] = "ok"

IsRecord(v) == v.t = "obj" /\ Keys \subseteq DOMAIN v.m

\* C4: with a userId, the list returned has at least one element and every
\* element is an object with the four keys.
C4_ListWellFormed ==
    \A p \in Procs :
        (HasUser(p) /\ Done(p)) =>
            /\ Len(resp[p][1].list) >= 1
            /\ \A i \in DOMAIN resp[p][1].list : IsRecord(resp[p][1].list[i])

UserRows(u) == {store[i] : i \in {j \in DOMAIN store : store[j].user_id = u}}

\* rows is what a query for the most recent rows of u, at most CacheLimit,
\* newest first, may give in this state of the table.
IsMostRecent(rows, u) ==
    /\ \A i \in DOMAIN rows : rows[i] \in UserRows(u)
    /\ \A i, j \in DOMAIN rows : i < j => rows[i].created_at > rows[j].created_at
    /\ Len(rows) = IF Cardinality(UserRows(u)) < 3 THEN Cardinality(UserRows(u)) ELSE 3
    /\ \A r \in UserRows(u) :
          (\A i \in DOMAIN rows : rows[i] # r) =>
              \A i \in DOMAIN rows : r.created_at < rows[i].created_at

\* The four values of a row, as the response carries them.
Shown(row) ==
    [t |-> "obj",
     m |-> [k \in Keys |->
              CASE k = "role_title" -> row.role_title
                [] k = "description" -> row.description
                [] k = "why_it_fits_professionally" -> row.why_it_fits_professionally
                [] k = "why_it_fits_personally" -> row.why_it_fits_personally]]

\* C5: a cache read that gives rows ends the invocation without a model call
\* and without an insert, and the list returned is the rows read: the most
\* recent rows of the user, at most 3, newest first.
C5_CacheHit ==
    /\ [](\A p \in Procs : existing[p] # <<>> =>
            /\ Done(p) /\ calls[p].model = 0 /\ calls[p].insert = 0
            /\ RowsBy(p) = <<>>
            /\ resp[p][1].status = 200
            /\ Len(resp[p][1].list) = Len(existing[p])
            /\ \A i \in DOMAIN existing[p] : resp[p][1].list[i] = Shown(existing[p][i]))
    /\ [][\A p \in Procs : (existing[p] = <<>> /\ existing'[p] # <<>>) =>
            (IsMostRecent(existing'[p], uid[p]) /\ store' = store)]_vars

C5_Witness ==
    \E p \in Procs : Done(p) /\ Len(existing[p]) >= 2 /\ Len(store) > Len(existing[p])

\* C6: a profile fetch that reports an error, or gives no discovery data,
\* ends with the default set and no cache read, model call or insert.
C6_NoProfileFallsBack ==
    \A p \in Procs :
        prof[p] \in {"error", "noData"} =>
            /\ Done(p)
            /\ resp[p] = <<Reply(200, defaultRecommendations)>>
            /\ calls[p].cache = 0 /\ calls[p].model = 0 /\ calls[p].insert = 0
            /\ RowsBy(p) = <<>>

C6_Witness == \E p, q \in Procs : prof[p] = "noData" /\ prof[q] = "error"

C8_InvocationErrorFallsBack ==
    \A p \in Procs :
        call[p] \in ModelFailures =>
            /\ Done(p)
            /\ resp[p] = <<Reply(200, defaultRecommendations)>>
            /\ calls[p].insert = 0 /\ RowsBy(p) = <<>>

C8_Witness ==
    \E p, q \in Procs : call[p] = "noChoices" /\ call[q] \in {"throws", "noBody"}

AllAccepted(p) == \A i \in DOMAIN ins[p] : ins[p][i] = "ok"
AllObjects(list) == \A i \in DOMAIN list : list[i].t = "obj"

\* The value a row holds for key k of record rec.
Held(rec, k) == IF k \in DOMAIN rec.m THEN rec.m[k] ELSE Null

\* C9: a generation whose reply parsed to n objects and whose inserts were
\* all accepted adds n rows, one per record and in their order, each with
\* the userId and the four values of its record, and answers with the list.
C9_PersistsEachRecord ==
    \A p \in Procs :
        (Done(p) /\ parsed[p] = "ok" /\ AllObjects(recs[p]) /\ AllAccepted(p)) =>
            /\ Len(RowsBy(p)) = Len(recs[p])
            /\ \A i \in DOMAIN recs[p] :
                  /\ RowsBy(p)[i].user_id = uid[p]
                  /\ RowsBy(p)[i].role_title = Held(recs[p][i], "role_title")
                  /\ RowsBy(p)[i].description = Held(recs[p][i], "description")
                  /\ RowsBy(p)[i].why_it_fits_professionally =
                        Held(recs[p][i], "why_it_fits_professionally")
                  /\ RowsBy(p)[i].why_it_fits_personally =
                        Held(recs[p][i], "why_it_fits_personally")
            /\ resp[p] = <<Reply(200, recs[p])>>
            /\ content[p] = Array3 => Len(RowsBy(p)) = 3

C9_Witness ==
    \E p \in Procs :
        /\ Done(p) /\ parsed[p] = "ok" /\ AllAccepted(p)
        /\ content[p] = Array3 /\ Len(RowsBy(p)) = 3

\* C10: whatever the inserts do, a generation answers 200 with the whole
\* list it produced.
C10_PersistFailureKeepsResponse ==
    \A p \in Procs :
        (Done(p) /\ call[p] = "content") =>
            resp[p] = <<Reply(200, IF Normalize(content[p]).ok
                                   THEN Normalize(content[p]).list
                                   ELSE defaultRecommendations)>>

C10_Witness ==
    \E p, q \in Procs :
        /\ Done(p) /\ Len(ins[p]) = 2 /\ ins[p][1] = "error" /\ ins[p][2] = "throws"
        /\ Done(q) /\ Len(ins[q]) = 3 /\ ins[q][3] = "error" /\ parsed[q] = "ok"
PartialKinds == {"noSelected", "noFacet"}

\* C11: discovery data that lacks a facet, or the selected list of a facet,
\* does not send the invocation to the default set: after a cache miss the
\* model is called, with an empty list for what is missing.
C11_PartialProfileTolerated ==
    \A p \in Procs :
        prof[p] \in PartialKinds =>
            /\ caught[p] # "facet"
            /\ (pc[p] # "CacheCheck" /\ existing[p] = <<>> /\ caught[p] # "cache") =>
                  /\ calls[p].model = 1
                  /\ prompt[p] = [skills |-> <<>>, interests |-> <<>>,
                                  values |-> <<>>, sent |-> TRUE]
\* The list a strict parse of text c stands for: the array, or the one value.
StrictList(c) ==
    IF JSONParse(c).v.t = "arr" THEN JSONParse(c).v.a ELSE <<JSONParse(c).v>>

IsObjArray(v) ==
    v.t = "arr" /\ Len(v.a) >= 1 /\ \A i \in DOMAIN v.a : v.a[i].t = "obj"

IsArrArray(v) ==
    v.t = "arr" /\ Len(v.a) >= 1 /\ \A i \in DOMAIN v.a : IsObjArray(v.a[i])

RECURSIVE HasArray(_)
HasArray(v) ==
    \/ v.t = "arr"
    \/ v.t = "obj" /\ \E k \in DOMAIN v.m : HasArray(v.m[k])

ArrayKeys(v) == {k \in DOMAIN v.m : v.m[k].t = "arr"}

\* An object with one array among its members, an array of objects without
\* arrays.
HoldsOneObjArray(v) ==
    /\ v.t = "obj"
    /\ \E k \in ArrayKeys(v) :
          /\ ArrayKeys(v) = {k}
          /\ IsObjArray(v.m[k])
          /\ \A i \in DOMAIN v.m[k].a : ~HasArray(v.m[k].a[i])

Replied(p) == call[p] = "content"

C14_NonListFallsBack ==
    \A p \in Procs :
        (Replied(p) /\ Done(p)) =>
            LET r == JSONParse(ExtractArray(StripFences(Trim(content[p]))))
            IN  (~r.ok \/ r.v.t \notin {"obj", "arr"}) =>
                    /\ Len(resp[p]) = 1
                    /\ resp[p][1].list = defaultRecommendations
\* What follows a reply that normalized to the one object v: one insert is
\* sent, an accepted one adds the row of v, and the response is the list of v.
OneObjectServed(p, v) ==
    /\ parsed[p] = "ok"
    /\ recs[p] = <<v>>
    /\ Done(p) =>
          /\ Len(ins[p]) = 1
          /\ Len(RowsBy(p)) = (IF ins[p][1] = "ok" THEN 1 ELSE 0)
          /\ \A i \in DOMAIN RowsBy(p) :
                /\ RowsBy(p)[i].user_id = uid[p]
                /\ \A k \in Keys : Shown(RowsBy(p)[i]).m[k] = Held(v, k)
          /\ Len(resp[p]) = 1
          /\ resp[p][1].status = 200
          /\ resp[p][1].list = <<v>>

\* C17 as stated: when the text left by trimming and fence stripping parses
\* to one object, the list is that object alone, one entry is persisted for
\* it and the list is the response.
C17_SingleObjectWrapped ==
    \A p \in Procs :
        Replied(p) =>
            LET r == JSONParse(StripFences(Trim(content[p])))
            IN  (r.ok /\ r.v.t = "obj") => OneObjectServed(p, r.v)

\* C17 as amended: the same, of the text left by trimming, fence stripping
\* and the array extraction.
C17_ExtractedObjectWrapped ==
    \A p \in Procs :
        Replied(p) =>
            LET r == JSONParse(ExtractArray(StripFences(Trim(content[p]))))
            IN  (r.ok /\ r.v.t = "obj") => OneObjectServed(p, r.v)

C17_Witness ==
    /\ Done("p1")
    /\ content["p1"] = <<Fence, "json", "\n", "{", "P", "}", "\n", Fence>>
    /\ Len(RowsBy("p1")) = 1
    /\ Len(resp["p1"][1].list) = 1
\* Invocation p found no cached rows, generated, and three inserts of it
\* were accepted.
Generated3(p) ==
    /\ Done(p) /\ existing[p] = <<>> /\ parsed[p] = "ok"
    /\ Len(recs[p]) = 3 /\ Len(RowsBy(p)) = 3

ShownRows(rows) == [i \in DOMAIN rows |-> Shown(rows[i])]

\* C15: two invocations for one user that both read an empty cache and both
\* persisted three rows leave six; an invocation that comes when they are at
\* rest writes nothing and answers with the three rows of the greatest
\* creation time, newest first, which are the last three of the table.
C15_RaceSettles ==
    (Done(Later) /\ \A p \in Procs : Generated3(p)) =>
        /\ Len(store) = 6
        /\ RowsBy(Later) = <<>>
        /\ calls[Later].model = 0
        /\ Len(existing[Later]) = 3
        /\ IsMostRecent(existing[Later], uid[Later])
        /\ existing[Later] = <<store[6], store[5], store[4]>>
        /\ resp[Later] = <<Reply(200, ShownRows(existing[Later]))>>

C15_Witness ==
    /\ Done(Later)
    /\ \A p \in Procs : Generated3(p)
    /\ Len(store) = 6
    /\ Len(resp[Later][1].list) = 3

\* An invocation passes its cache query in this step.
ReadsCache(p) == pc[p] = "CacheCheck" /\ pc'[p] # "CacheCheck"

\* C16 as stated: a cache read gives no row or three, and a response from
\* the cache has three recommendations.
C16_CacheReadExactlyThree ==
    [][\A p \in Slots :
          ReadsCache(p) =>
              /\ Len(existing'[p]) \in {0, 3}
              /\ existing'[p] # <<>> => Len(resp'[p][1].list) = 3]_vars

\* C16 as amended: a cache read gives no row when the user has none, and
\* otherwise the most recent rows of the user, three of them or all when
\* there are fewer; a response from the cache has as many recommendations.
C16_CacheReadAtMostThree ==
    [][\A p \in Slots :
          ReadsCache(p) =>
              /\ existing'[p] = <<>> <=> UserRows(uid[p]) = {}
              /\ IsMostRecent(existing'[p], uid[p])
              /\ Len(existing'[p]) <= CacheLimit
              /\ existing'[p] # <<>> =>
                    /\ resp'[p] = <<Reply(200, ShownRows(existing'[p]))>>
                    /\ Len(resp'[p][1].list) \in 1..CacheLimit]_vars

C16_Witness ==
    /\ Done(Later)
    /\ Len(existing[Later]) = 1
    /\ Len(resp[Later][1].list) = 1
    /\ \E p \in Procs : content[p] = <<"{", "A", "}">> /\ Len(RowsBy(p)) = 1
\* The four fields of a record, a field it lacks as null.
FourFields(rec) == Obj([k \in Keys |-> Held(rec, k)])

\* Invocation p generated three records and persisted them all, no other
\* invocation has written, and the later invocation has answered.
RoundTrip(p) ==
    /\ Generated3(p) /\ AllAccepted(p)
    /\ store = RowsBy(p)
    /\ Done(Later)

\* C18 as stated: the invocation after a generation that persisted its three
\* records answers with the list the generation answered with.
C18_RoundTripSameOrder ==
    \A p \in Procs :
        RoundTrip(p) => resp[Later][1].list = resp[p][1].list

\* C18 as amended: it answers with the four fields of the same three
\* records, in the reverse of the order the generation answered with.
C18_RoundTripReversed ==
    \A p \in Procs :
        RoundTrip(p) =>
            /\ resp[p] = <<Reply(200, recs[p])>>
            /\ resp[Later] =
                  <<Reply(200, Reverse([i \in DOMAIN recs[p] |-> FourFields(recs[p][i])]))>>
            /\ store = RowsBy(p)

C18_Witness ==
    /\ RoundTrip("p1")
    /\ pc["p2"] = "Start"
    /\ content["p1"] = Array3
    /\ resp[Later][1].list[1] = resp["p1"][1].list[3]

\* C19: when two invocations for one user have both generated and persisted
\* three records, the three rows a cache read gives are rows of one of them.
C19_CachedSetFromOneGeneration ==
    (\A p \in Procs : Generated3(p) /\ uid[p] = "u1") =>
        \E q \in Procs :
            \A i \in DOMAIN CachedRows("u1") : CachedRows("u1")[i].by = q
====
